---- MODULE Spec2Model ----
(***************************************************************************)
(* A model of the RescueTime client of src/rescuetime.go: one call of      *)
(* GetAnalyticData or GetDailySummary on a client, from the building of    *)
(* the URL, over the HTTP GET, to the decoded result.                      *)
(*                                                                         *)
(* Strings whose characters the code inspects (column headers, number      *)
(* literals, date strings, text cells) are sequences of one-character      *)
(* strings; strings the code only compares or copies are TLA+ strings.     *)
(***************************************************************************)
EXTENDS Integers, Sequences, FiniteSets, TLC

\* ------------------------------------------------------------ bounds

\* The most columns (headers, and cells of a row) of a modelled response.
MaxCols == 1

\* The most rows of a modelled response.
MaxRows == 1

\* The most characters of a header drawn from HeaderAlphabet.
MaxHeaderLen == 4

\* ------------------------------------------------------------ characters

Lower == <<"a","b","c","d","e","f","g","h","i","j","k","l","m",
           "n","o","p","q","r","s","t","u","v","w","x","y","z">>

Upper == <<"A","B","C","D","E","F","G","H","I","J","K","L","M",
           "N","O","P","Q","R","S","T","U","V","W","X","Y","Z">>

Digits == <<"0","1","2","3","4","5","6","7","8","9">>

\* The place of c in the sequence s, 0 when it is not there.
IndexIn(c, s) ==
    IF \E i \in 1..Len(s) : s[i] = c
    THEN CHOOSE i \in 1..Len(s) : s[i] = c
    ELSE 0

IsLower(c) == IndexIn(c, Lower) > 0

IsUpper(c) == IndexIn(c, Upper) > 0

IsDigit(c) == IndexIn(c, Digits) > 0

\* The character class [0-9A-Za-z] of titlingRegex; headerRegex is its complement.
IsAlnum(c) == IsDigit(c) \/ IsLower(c) \/ IsUpper(c)

\* A titling that turns the case of every letter it is given.
ToTitle_Swap(c) ==
    IF IsLower(c) THEN Upper[IndexIn(c, Lower)]
    ELSE IF IsUpper(c) THEN Lower[IndexIn(c, Upper)]
    ELSE c

\* unicode.ToTitle on ASCII: a lower-case letter becomes its capital.
ToTitle(c) == IF IsLower(c) THEN Upper[IndexIn(c, Lower)] ELSE c

\* bytes.Title's isSeparator on ASCII: letters, digits and the underscore
\* are inside a word, every other character separates words.
isSeparator(c) == ~(IsAlnum(c) \/ c = "_")

\* bytes.Title: the first letter of each word in title case, the rest as it is.
bytesTitle(s) ==
    [i \in 1..Len(s) |->
        IF i = 1 \/ isSeparator(s[i - 1]) THEN ToTitle(s[i]) ELSE s[i]]

RECURSIVE TakeAlnum(_)
\* The longest prefix of s that [0-9A-Za-z]+ matches.
TakeAlnum(s) ==
    IF s = <<>> \/ ~IsAlnum(Head(s)) THEN <<>>
    ELSE <<Head(s)>> \o TakeAlnum(Tail(s))

RECURSIVE FindAll(_)
\* titlingRegex.FindAll(src, -1): the maximal runs of [0-9A-Za-z], left to right.
FindAll(s) ==
    IF s = <<>> THEN <<>>
    ELSE IF ~IsAlnum(Head(s)) THEN FindAll(Tail(s))
    ELSE LET run == TakeAlnum(s)
         IN  <<run>> \o FindAll(SubSeq(s, Len(run) + 1, Len(s)))

RECURSIVE Join(_)
\* bytes.Join(chunks, nil)
Join(chunks) ==
    IF chunks = <<>> THEN <<>> ELSE Head(chunks) \o Join(Tail(chunks))

titleCase(src) ==
    LET chunks == FindAll(src)
    IN  Join([idx \in 1..Len(chunks) |-> bytesTitle(chunks[idx])])

\* headerRegex.ReplaceAllString(s, ""): every run of [^A-Za-z0-9] removed.
ReplaceAllNonAlnum(s) == SelectSeq(s, IsAlnum)

\* The key stored in headersMap for a header string.
HeaderKey(s) == ReplaceAllNonAlnum(titleCase(s))

\* ------------------------------------------------------------ JSON values

\* A decoded JSON value as simplejson holds it (the decoder runs with
\* UseNumber): t is its type, s the characters of a string or of a number's
\* literal, a the elements of an array.
JStr(s) == [t |-> "string", s |-> s, a |-> <<>>]

JNum(lit) == [t |-> "number", s |-> lit, a |-> <<>>]

JNull == [t |-> "null", s |-> <<>>, a |-> <<>>]

JArr(a) == [t |-> "array", s |-> <<>>, a |-> a]

\* The top-level keys GetAnalyticData reads.
TopKeys == {"notes", "row_headers", "rows"}

\* Json.Get(key): the member of a JSON object, a nil value when the body is
\* no object or has no such member.
Get(contents, key) ==
    IF contents.isObject /\ key \in contents.keys THEN contents[key] ELSE JNull

\* Json.MustString(): the string, "" for any other value.
MustString(v) == IF v.t = "string" THEN v.s ELSE <<>>

\* Json.MustStringArray(): the strings of an array of strings (a null
\* element reads as ""), the empty list for any other value.
MustStringArray(v) ==
    IF v.t = "array" /\ \A i \in 1..Len(v.a) : v.a[i].t \in {"string", "null"}
    THEN [i \in 1..Len(v.a) |-> v.a[i].s]
    ELSE <<>>

\* Json.MustArray(): the elements of an array, none for any other value.
MustArray(v) == IF v.t = "array" THEN v.a ELSE <<>>

\* ------------------------------------------------------------ numbers

RECURSIVE DigitsValue(_)
DigitsValue(s) ==
    IF s = <<>> THEN 0
    ELSE DigitsValue(SubSeq(s, 1, Len(s) - 1)) * 10 + (IndexIn(s[Len(s)], Digits) - 1)

\* json.Number.Int64(), that is strconv.ParseInt(literal, 10, 64): an optional
\* sign and then digits only. The literals of the model are far inside the
\* range of int64, so the range error is not modelled.
Int64(lit) ==
    LET signed == lit # <<>> /\ Head(lit) \in {"+", "-"}
        body == IF signed THEN Tail(lit) ELSE lit
    IN  IF body = <<>> \/ \E i \in 1..Len(body) : ~IsDigit(body[i])
        THEN [ok |-> FALSE, v |-> 0]
        ELSE [ok |-> TRUE,
              v |-> IF Head(lit) = "-" THEN 0 - DigitsValue(body) ELSE DigitsValue(body)]

\* ------------------------------------------------------------ time

IsLeap(y) == y % 4 = 0 /\ (y % 100 # 0 \/ y % 400 = 0)

DaysIn(month, year) ==
    IF month = 2 THEN (IF IsLeap(year) THEN 29 ELSE 28)
    ELSE IF month \in {4, 6, 9, 11} THEN 30 ELSE 31

\* A time.Time: the wall clock it shows, the location it is shown in and
\* that location's offset from UTC in hours.
Time(y, mo, d, h, mi, sec, loc, off) ==
    [year |-> y, month |-> mo, day |-> d, hour |-> h, min |-> mi, sec |-> sec,
     loc |-> loc, off |-> off]

\* time.Time{}, the zero value of the Date field.
ZeroTime == Time(1, 1, 1, 0, 0, 0, "UTC", 0)

\* The number written by the digits s[from..to], -1 when they are not all digits.
Atoi(s, from, to) ==
    IF to > Len(s) \/ \E i \in from..to : ~IsDigit(s[i]) THEN 0 - 1
    ELSE DigitsValue(SubSeq(s, from, to))

\* time.Parse("2006-01-02T15:04:05", value): four digits of year, two of
\* month and of day, one or two of hour, two of minute and of second, the
\* separators as written, nothing after; every field in its range. The
\* result is in UTC. (Fractional seconds, which Parse also accepts after the
\* seconds, are not among the model's date strings and read as extra text.)
timeParse(value) ==
    LET hlen == IF Len(value) >= 13 /\ IsDigit(value[13]) THEN 2 ELSE 1
        q == 12 + hlen
        shape == /\ Len(value) = q + 5
                 /\ value[5] = "-" /\ value[8] = "-" /\ value[11] = "T"
                 /\ value[q] = ":" /\ value[q + 3] = ":"
        y == Atoi(value, 1, 4)
        mo == Atoi(value, 6, 7)
        d == Atoi(value, 9, 10)
        h == Atoi(value, 12, q - 1)
        mi == Atoi(value, q + 1, q + 2)
        sec == Atoi(value, q + 4, q + 5)
    IN  IF /\ shape
           /\ y >= 0 /\ mo \in 1..12 /\ d >= 1 /\ d <= DaysIn(mo, y)
           /\ h \in 0..23 /\ mi \in 0..59 /\ sec \in 0..59
        THEN [ok |-> TRUE, t |-> Time(y, mo, d, h, mi, sec, "UTC", 0)]
        ELSE [ok |-> FALSE, t |-> ZeroTime]

\* The time zones of the model's database: each with the offset from UTC, in
\* hours, in force at the dates of the model (May 2023).
ZoneOffset ==
    [z \in {"UTC", "America/New_York", "Asia/Tokyo"} |->
        CASE z = "UTC" -> 0
          [] z = "America/New_York" -> 0 - 4
          [] z = "Asia/Tokyo" -> 9]

\* time.LoadLocation(name): an error for a name the database does not hold.
LoadLocation(name) ==
    IF name = "" THEN [ok |-> TRUE, loc |-> "UTC"]
    ELSE IF name \in DOMAIN ZoneOffset THEN [ok |-> TRUE, loc |-> name]
    ELSE [ok |-> FALSE, loc |-> ""]

\* The wall clock of t moved by h hours, -24 < h < 24, carrying into the
\* day, the month and the year.
AddHours(t, h) ==
    LET hh == t.hour + h
        back == hh < 0
        fwd == hh >= 24
        pm == IF t.month = 1 THEN 12 ELSE t.month - 1
        py == IF t.month = 1 THEN t.year - 1 ELSE t.year
        nm == IF t.month = 12 THEN 1 ELSE t.month + 1
        ny == IF t.month = 12 THEN t.year + 1 ELSE t.year
    IN  IF back
        THEN IF t.day > 1
             THEN [t EXCEPT !.hour = hh + 24, !.day = t.day - 1]
             ELSE [t EXCEPT !.hour = hh + 24, !.day = DaysIn(pm, py),
                            !.month = pm, !.year = py]
        ELSE IF fwd
        THEN IF t.day < DaysIn(t.month, t.year)
             THEN [t EXCEPT !.hour = hh - 24, !.day = t.day + 1]
             ELSE [t EXCEPT !.hour = hh - 24, !.day = 1, !.month = nm, !.year = ny]
        ELSE [t EXCEPT !.hour = hh]

\* Time.In(location): the same instant, shown in location: the wall clock
\* moves by the difference of the offsets.
In(t, location) ==
    LET moved == AddHours(t, ZoneOffset[location] - t.off)
    IN  [moved EXCEPT !.loc = location, !.off = ZoneOffset[location]]

\* ------------------------------------------------------------ rows

\* The fields of the row struct, in their order.
RowFields ==
    <<"Date", "Rank", "TimeSpentSeconds", "NumberOfPeople",
      "Person", "Activity", "Category", "Productivity">>

RowFieldSet == {RowFields[i] : i \in 1..Len(RowFields)}

\* The characters of each field's name, as FieldByName compares them.
FieldSpelling ==
    [f \in RowFieldSet |->
        CASE f = "Date" -> <<"D","a","t","e">>
          [] f = "Rank" -> <<"R","a","n","k">>
          [] f = "TimeSpentSeconds" ->
                <<"T","i","m","e","S","p","e","n","t","S","e","c","o","n","d","s">>
          [] f = "NumberOfPeople" ->
                <<"N","u","m","b","e","r","O","f","P","e","o","p","l","e">>
          [] f = "Person" -> <<"P","e","r","s","o","n">>
          [] f = "Activity" -> <<"A","c","t","i","v","i","t","y">>
          [] f = "Category" -> <<"C","a","t","e","g","o","r","y">>
          [] f = "Productivity" ->
                <<"P","r","o","d","u","c","t","i","v","i","t","y">>]

\* The Go type of each field of row.
FieldKind ==
    [f \in RowFieldSet |->
        IF f = "Date" THEN "time"
        ELSE IF f \in {"Person", "Activity", "Category"} THEN "string"
        ELSE "int"]

\* var aRow row: every field at the zero value of its type.
ZeroRow ==
    [f \in RowFieldSet |->
        CASE FieldKind[f] = "time" -> ZeroTime
          [] FieldKind[f] = "int" -> 0
          [] FieldKind[f] = "string" -> <<>>]

\* reflect's FieldByName(name): the field of that exact name, "" (the zero
\* Value) when row has none.
FieldByName(name) ==
    IF \E f \in RowFieldSet : FieldSpelling[f] = name
    THEN CHOOSE f \in RowFieldSet : FieldSpelling[f] = name
    ELSE ""

\* A lookup that takes the cell's index for a 1-based one.
HeaderAt_OffByOne(headersMap, index) ==
    IF index \in 1..Len(headersMap) THEN headersMap[index] ELSE <<>>

\* headersMap[index] for the 0-based index of a cell: the key of that
\* header, "" for an index the map does not hold.
HeaderAt(headersMap, index) ==
    IF index + 1 \in 1..Len(headersMap) THEN headersMap[index + 1] ELSE <<>>

\* The outcomes of a step of the decoding loop: it went on with aRow, it
\* returned err with data (partial) or with rtd, or it panicked.
Went(aRow) == [st |-> "ok", row |-> aRow, err |-> "", partial |-> FALSE]

Returned(err, partial) == [st |-> "err", row |-> ZeroRow, err |-> err, partial |-> partial]

Panicked == [st |-> "panic", row |-> ZeroRow, err |-> "", partial |-> FALSE]

\* The errors the code returns.
ErrNoKey == "Please provide API key"

ErrTransport == "http.Get"

ErrJSON == "json"

ErrParseInt == "strconv.ParseInt"

ErrParseTime == "time.Parse"

ErrLocation == "time.LoadLocation"

\* A decoder that shows a date in the zone of New York when no timezone is given.
DecodeTime_Local(aRow, field, column, timezone) ==
    IF column.t # "string" THEN Panicked
    ELSE LET parsed == timeParse(column.s)
             location == LoadLocation(timezone)
         IN  IF ~parsed.ok THEN Returned(ErrParseTime, FALSE)
             ELSE IF ~location.ok THEN Returned(ErrLocation, FALSE)
             ELSE Went([aRow EXCEPT ![field] =
                          In(parsed.t, IF timezone = "" THEN "America/New_York"
                                       ELSE location.loc)])

\* A decoder that loads the location before it parses the date string.
DecodeTime_ZoneFirst(aRow, field, column, timezone) ==
    IF column.t # "string" THEN Panicked
    ELSE LET parsed == timeParse(column.s)
             location == LoadLocation(timezone)
         IN  IF ~location.ok THEN Returned(ErrLocation, FALSE)
             ELSE IF ~parsed.ok THEN Returned(ErrParseTime, FALSE)
             ELSE IF timezone # ""
             THEN Went([aRow EXCEPT ![field] = In(parsed.t, location.loc)])
             ELSE Went([aRow EXCEPT ![field] = parsed.t])

\* The case time.Time of the type switch.
DecodeTime(aRow, field, column, timezone) ==
    IF column.t # "string" THEN Panicked
    ELSE LET parsed == timeParse(column.s)
             location == LoadLocation(timezone)
         IN  IF ~parsed.ok THEN Returned(ErrParseTime, FALSE)
             ELSE IF timezone # ""
             THEN IF ~location.ok THEN Returned(ErrLocation, FALSE)
                  ELSE Went([aRow EXCEPT ![field] = In(parsed.t, location.loc)])
             ELSE Went([aRow EXCEPT ![field] = parsed.t])

\* The case int, int8, ... of the type switch.
DecodeInt(aRow, field, column) ==
    IF column.t # "number" THEN Panicked
    ELSE LET intValue == Int64(column.s)
         IN  IF ~intValue.ok THEN Returned(ErrParseInt, TRUE)
             ELSE Went([aRow EXCEPT ![field] = intValue.v])

\* The default case of the type switch: field.Set(reflect.ValueOf(column))
\* panics unless column is a Go string.
DecodeOther(aRow, field, column) ==
    IF column.t # "string" THEN Panicked
    ELSE Went([aRow EXCEPT ![field] = column.s])

\* The body of the inner loop for the cell `column` at `index`.
DecodeCell(aRow, headersMap, index, column, timezone) ==
    LET thisHeader == HeaderAt(headersMap, index)
        field == FieldByName(thisHeader)
    IN  IF field = "" THEN Panicked
        ELSE IF FieldKind[field] = "int" THEN DecodeInt(aRow, field, column)
        ELSE IF FieldKind[field] = "time" THEN DecodeTime(aRow, field, column, timezone)
        ELSE DecodeOther(aRow, field, column)

RECURSIVE DecodeCells(_, _, _, _, _)
\* The inner loop after the cell at `index` gave `one`: the loop ends with
\* the return or the panic of that cell, and goes on otherwise.
AfterCell(one, headersMap, index, cells, timezone) ==
    IF one.st # "ok" THEN one
    ELSE DecodeCells(one.row, headersMap, index + 1, cells, timezone)

\* The inner loop from the cell at `index` on.
DecodeCells(aRow, headersMap, index, cells, timezone) ==
    IF index >= Len(cells) THEN Went(aRow)
    ELSE AfterCell(DecodeCell(aRow, headersMap, index, cells[index + 1], timezone),
                   headersMap, index, cells, timezone)

\* The body of the outer loop for one entry of rows.
DecodeRow(headersMap, entry, timezone) ==
    IF entry.t # "array" THEN Panicked
    ELSE DecodeCells(ZeroRow, headersMap, 0, entry.a, timezone)

\* A decoder that puts each decoded row in front of the earlier ones.
Append1_Prepend(toAppend, aRow) == <<aRow>> \o toAppend

\* toAppend = append(toAppend, aRow)
Append1(toAppend, aRow) == Append(toAppend, aRow)

RECURSIVE DecodeRows(_, _, _, _)
\* The outer loop after an entry gave `one`.
AfterRow(one, toAppend, headersMap, entries, timezone) ==
    IF one.st # "ok"
    THEN [st |-> one.st, rows |-> <<>>, err |-> one.err, partial |-> one.partial]
    ELSE DecodeRows(Append1(toAppend, one.row), headersMap, Tail(entries), timezone)

\* The outer loop: the rows decoded so far in toAppend, the entries left.
DecodeRows(toAppend, headersMap, entries, timezone) ==
    IF entries = <<>>
    THEN [st |-> "ok", rows |-> toAppend, err |-> "", partial |-> FALSE]
    ELSE AfterRow(DecodeRow(headersMap, Head(entries), timezone),
                  toAppend, headersMap, entries, timezone)

\* ------------------------------------------------------------ requests

analyticDataURL == "https://www.rescuetime.com/anapi/data"

dailySummaryURL == "https://www.rescuetime.com/anapi/daily_summary_feed"

\* The fields of AnalyticDataQueryParameters, in their order.
ParameterFields ==
    <<"Perspective", "ResolutionTime", "RestrictGroup", "RestrictBegin",
      "RestrictEnd", "RestrictKind", "RestrictThing", "RestrictThingy">>

\* The field_name tag of each field: its key in the query.
FieldNameTag ==
    [f \in {ParameterFields[i] : i \in 1..Len(ParameterFields)} |->
        CASE f = "Perspective" -> "perspective"
          [] f = "ResolutionTime" -> "resolution_time"
          [] f = "RestrictGroup" -> "restrict_group"
          [] f = "RestrictBegin" -> "restrict_begin"
          [] f = "RestrictEnd" -> "restrict_end"
          [] f = "RestrictKind" -> "restrict_kind"
          [] f = "RestrictThing" -> "restrict_thing"
          [] f = "RestrictThingy" -> "restrict_thingy"]

\* url.Values.Set(key, value) on values held as a set of <<key, value>>.
ValuesSet(values, key, value) ==
    {kv \in values : kv[1] # key} \cup {<<key, value>>}

\* A structToMap that sets every field, the empty ones too.
structToMapFrom_KeepEmpty(parameters, i) ==
    {<<FieldNameTag[ParameterFields[j]], parameters[ParameterFields[j]]>> :
        j \in i..Len(ParameterFields)}

RECURSIVE structToMapFrom(_, _)
\* The loop of structToMap from field i on.
structToMapFrom(parameters, i) ==
    IF i > Len(ParameterFields) THEN {}
    ELSE LET f == ParameterFields[i]
             v == parameters[f]
             rest == structToMapFrom(parameters, i + 1)
         IN  IF v = "" THEN rest
             ELSE {<<FieldNameTag[f], v>>} \cup {kv \in rest : kv[1] # FieldNameTag[f]}

structToMap(parameters) == structToMapFrom(parameters, 1)

\* url.Parse(baseURL) succeeds on the two endpoint constants, the only base
\* URLs the code passes.
urlParseOK(baseURL) == baseURL \in {analyticDataURL, dailySummaryURL}

\* buildURL: the URL as its base and its query.
buildURL(key, baseURL, urlValues) ==
    IF ~urlParseOK(baseURL) THEN [ok |-> FALSE, base |-> "", query |-> {}]
    ELSE [ok |-> TRUE, base |-> baseURL,
          query |-> ValuesSet(ValuesSet(urlValues, "key", key), "format", "json")]

\* ------------------------------------------------------------ results

\* var rtd AnalyticData. Parameters is a pointer: <<>> is nil, <<p>> points to p.
EmptyData == [Notes |-> <<>>, RowHeaders |-> <<>>, Rows |-> <<>>, Parameters |-> <<>>]

NoResult == [kind |-> "none", err |-> "", data |-> EmptyData, summaries |-> <<>>]

ResultOK(data, summaries) ==
    [kind |-> "ok", err |-> "", data |-> data, summaries |-> summaries]

ResultErr(err, data) ==
    [kind |-> "err", err |-> err, data |-> data, summaries |-> <<>>]

ResultPanic == [kind |-> "panic", err |-> "", data |-> EmptyData, summaries |-> <<>>]

\* A response body: top is what the JSON text is at its top level ("invalid"
\* when it is no JSON), keys the members of a top-level object, days the
\* elements of a top-level array of daily summaries.
Body(top, keys, notes, headers, rows, days) ==
    [top |-> top, isObject |-> top = "object", keys |-> keys, notes |-> notes,
     row_headers |-> headers, rows |-> rows, days |-> days]

\* No body: what contents holds until getResponse returns one.
NoContents == Body("none", {}, JNull, JNull, JNull, <<>>)

\* headersMap, built by the loop over row_headers.
HeadersMap(rowHeaders) == [i \in 1..Len(rowHeaders) |-> HeaderKey(rowHeaders[i])]

\* What GetAnalyticData returns once the loop over rows gave `out`.
AnalyticResult(data, out) ==
    IF out.st = "panic" THEN ResultPanic
    ELSE IF out.st = "err"
    THEN ResultErr(out.err, IF out.partial THEN data ELSE EmptyData)
    ELSE ResultOK([data EXCEPT !.Rows = out.rows], <<>>)

\* The loop over rows, with the headers read.
DecodeWithHeaders(notes, rowHeaders, entries, timezone, parameters) ==
    AnalyticResult([Notes |-> notes, RowHeaders |-> rowHeaders, Rows |-> <<>>,
                    Parameters |-> <<parameters>>],
                   DecodeRows(<<>>, HeadersMap(rowHeaders), entries, timezone))

\* GetAnalyticData from simplejson.NewJson(contents) on.
DecodeAnalyticData(contents, timezone, parameters) ==
    IF contents.top = "invalid" THEN ResultErr(ErrJSON, EmptyData)
    ELSE DecodeWithHeaders(MustString(Get(contents, "notes")),
                           MustStringArray(Get(contents, "row_headers")),
                           MustArray(Get(contents, "rows")), timezone, parameters)

\* GetDailySummary from json.Unmarshal(contents, &keys) on: the body must be
\* a JSON array (of summary objects).
DecodeDailySummary(contents) ==
    IF contents.top # "array" THEN ResultErr(ErrJSON, EmptyData)
    ELSE ResultOK(EmptyData, contents.days)

\* ------------------------------------------------------------ inputs

\* Column headers a response may carry.
hDate == <<"D","a","t","e">>

hTimeSpent == <<"T","i","m","e"," ","S","p","e","n","t"," ","(","s","e","c","o","n","d","s",")">>

hTimeSpentUpper == <<"T","I","M","E"," ","S","P","E","N","T"," ","(","S","E","C","O","N","D","S",")">>

hTimeSpentDashed == <<"t","i","m","e","-","s","p","e","n","t","-","s","e","c","o","n","d","s">>

hActivity == <<"A","c","t","i","v","i","t","y">>

hCategory == <<"C","a","t","e","g","o","r","y">>

hProductivity == <<"P","r","o","d","u","c","t","i","v","i","t","y">>

hDevice == <<"D","e","v","i","c","e">>

HeaderStrings == {hDate, hTimeSpent, hTimeSpentUpper, hTimeSpentDashed, hActivity, hDevice}

sEditor == <<"e","d","i","t","o","r">>

sSoftware == <<"s","o","f","t","w","a","r","e">>

sDate == <<"2","0","2","3","-","0","5","-","0","1","T","1","0",":","0","0",":","0","0">>

sLeapDate == <<"2","0","2","4","-","0","2","-","2","9","T","2","3",":","5","9",":","5","8">>

sNotes == <<"n","o","t","e","s">>

\* Cells a row may carry: an integer, a number that is no integer, a text
\* and a well-formed date.
Cells == {JNum(<<"3","6","0","0">>), JNum(<<"1",".","5">>), JStr(sEditor), JStr(sDate)}

SeqsUpTo(S, n) == UNION {[1..k -> S] : k \in 0..n}

\* The entries of rows: lists of cells, and one entry that is no list.
Entries == {JArr(cells) : cells \in SeqsUpTo(Cells, MaxCols)} \cup {JStr(sEditor)}

Headers(hs) == JArr([i \in 1..Len(hs) |-> JStr(hs[i])])

\* Every well-formed response within the bounds.
FullBodies ==
    {Body("object", TopKeys, JStr(sNotes), Headers(hs), JArr(es), <<>>) :
        hs \in SeqsUpTo(HeaderStrings, MaxCols), es \in SeqsUpTo(Entries, MaxRows)}

\* A response with the headers hs and the rows of cells in rows.
Response(hs, rows) ==
    Body("object", TopKeys, JStr(sNotes), Headers(hs),
         JArr([i \in 1..Len(rows) |-> JArr(rows[i])]), <<>>)

\* A response of one row.
OneRow(hs, cells) == Response(hs, <<cells>>)

\* The response of the specification's example.
ExampleBody ==
    OneRow(<<hTimeSpent, hActivity, hCategory, hProductivity>>,
           <<JNum(<<"3","6","0","0">>), JStr(sEditor), JStr(sSoftware), JNum(<<"2">>)>>)

\* Responses beyond the bounds: the example, one of two rows and two
\* columns, one with a date at the end of a leap day, one with a zero in
\* the Productivity column, one with two
\* integers under two spellings of one header, one with a column of no
\* known field beside a known one, and ones with a null cell in a column of
\* each type.
SampleBodies ==
    {ExampleBody,
     Response(<<hActivity, hTimeSpent>>,
              <<<<JStr(sSoftware), JNum(<<"2">>)>>,
                <<JStr(sEditor), JNum(<<"3","6","0","0">>)>>>>),
     OneRow(<<hActivity, hProductivity>>, <<JStr(sEditor), JNum(<<"0">>)>>),
     OneRow(<<hTimeSpent, hTimeSpentDashed>>, <<JNum(<<"3","6","0","0">>), JNum(<<"2">>)>>),
     OneRow(<<hActivity, hDevice>>, <<JStr(sEditor), JStr(sSoftware)>>),
     OneRow(<<hActivity, hDate>>, <<JStr(sEditor), JStr(sLeapDate)>>),
     OneRow(<<hDate>>, <<JNull>>),
     OneRow(<<hTimeSpent>>, <<JNull>>),
     OneRow(<<hActivity>>, <<JNull>>)}

\* JSON objects that lack some of the top-level keys.
PartialBodies ==
    {Body("object", K,
          IF "notes" \in K THEN JStr(sNotes) ELSE JNull,
          IF "row_headers" \in K THEN Headers(<<hActivity>>) ELSE JNull,
          IF "rows" \in K THEN JArr(<<JArr(<<JStr(sEditor)>>)>>) ELSE JNull,
          <<>>) : K \in (SUBSET TopKeys) \ {TopKeys}}

\* A daily summary, by three of its fields.
Day(id, date, pulse) == [id |-> id, date |-> date, productivity_pulse |-> pulse]

\* Bodies that are no JSON, or JSON that is no object.
InvalidBody == Body("invalid", {}, JNull, JNull, JNull, <<>>)

ArrayBody(days) == Body("array", {}, JNull, JNull, JNull, days)

AnalyticBodies ==
    FullBodies \cup SampleBodies \cup PartialBodies \cup {InvalidBody, ArrayBody(<<>>)}

DailyBodies ==
    {InvalidBody, Body("object", {"notes"}, JStr(sNotes), JNull, JNull, <<>>),
     ArrayBody(<<>>), ArrayBody(<<Day(1, "2023-05-01", 70)>>),
     ArrayBody(<<Day(2, "2023-05-02", 55), Day(1, "2023-05-01", 70)>>)}

APIKeys == {"", "secret"}

Timezones == {"", "America/New_York", "Mars/Phobos"}

NoParameters ==
    [f \in {ParameterFields[i] : i \in 1..Len(ParameterFields)} |-> ""]

ParameterSets ==
    {NoParameters,
     [NoParameters EXCEPT !["Perspective"] = "interval", !["RestrictKind"] = "activity"]}

\* ------------------------------------------------------------ state

VARIABLES
    APIKey,      \* the client's key
    pc,          \* where the call is: idle, built, fetched, done
    op,          \* the operation called: "analytic" or "daily"
    timezone,    \* GetAnalyticData's timezone argument
    parameters,  \* GetAnalyticData's parameters argument (<<p>>: a pointer to p)
    builtURL,    \* the URL buildURL returned
    requests,    \* the URLs of the HTTP GETs issued so far
    contents,    \* the body getResponse returned
    result       \* what the call returned

vars == <<APIKey, pc, op, timezone, parameters, builtURL, requests, contents, result>>

NoURL == [ok |-> FALSE, base |-> "", query |-> {}]

Init ==
    /\ APIKey \in APIKeys
    /\ pc = "idle"
    /\ op = ""
    /\ timezone = ""
    /\ parameters = <<>>
    /\ builtURL = NoURL
    /\ requests = <<>>
    /\ contents = NoContents
    /\ result = NoResult

\* GetAnalyticData up to the return of buildURL.
CallGetAnalyticData(tz, p) ==
    /\ pc = "idle"
    /\ op' = "analytic"
    /\ timezone' = tz
    /\ parameters' = <<p>>
    /\ LET built == buildURL(APIKey, analyticDataURL, structToMap(p))
       IN  /\ builtURL' = built
           /\ IF built.ok
              THEN pc' = "built" /\ result' = result
              ELSE pc' = "done" /\ result' = ResultErr("url.Parse", EmptyData)
    /\ UNCHANGED <<APIKey, requests, contents>>

\* GetDailySummary up to the return of buildURL.
CallGetDailySummary ==
    /\ pc = "idle"
    /\ op' = "daily"
    /\ LET built == buildURL(APIKey, dailySummaryURL, {})
       IN  /\ builtURL' = built
           /\ IF built.ok
              THEN pc' = "built" /\ result' = result
              ELSE pc' = "done" /\ result' = ResultErr("url.Parse", EmptyData)
    /\ UNCHANGED <<APIKey, timezone, parameters, requests, contents>>

\* A getResponse that checks the key only after http.Get.
GetResponseNoKey_AfterGet ==
    /\ pc = "built"
    /\ APIKey = ""
    /\ requests' = Append(requests, builtURL)
    /\ pc' = "done"
    /\ result' = ResultErr(ErrNoKey, EmptyData)
    /\ UNCHANGED <<APIKey, op, timezone, parameters, builtURL, contents>>

\* getResponse on a client without a key: the error, and no request.
GetResponseNoKey ==
    /\ pc = "built"
    /\ APIKey = ""
    /\ pc' = "done"
    /\ result' = ResultErr(ErrNoKey, EmptyData)
    /\ UNCHANGED <<APIKey, op, timezone, parameters, builtURL, requests, contents>>

\* A getResponse that issues the request once more when it has failed.
GetResponseFails_Retry ==
    /\ pc = "built"
    /\ APIKey # ""
    /\ requests' = Append(requests, builtURL)
    /\ IF requests = <<>>
       THEN pc' = "built" /\ result' = result
       ELSE pc' = "done" /\ result' = ResultErr(ErrTransport, EmptyData)
    /\ UNCHANGED <<APIKey, op, timezone, parameters, builtURL, contents>>

\* getResponse when http.Get or the reading of the body fails: the caller
\* returns that error.
GetResponseFails ==
    /\ pc = "built"
    /\ APIKey # ""
    /\ requests' = Append(requests, builtURL)
    /\ pc' = "done"
    /\ result' = ResultErr(ErrTransport, EmptyData)
    /\ UNCHANGED <<APIKey, op, timezone, parameters, builtURL, contents>>

\* getResponse when the server answers with body.
GetResponseBody(body) ==
    /\ pc = "built"
    /\ APIKey # ""
    /\ requests' = Append(requests, builtURL)
    /\ contents' = body
    /\ pc' = "fetched"
    /\ UNCHANGED <<APIKey, op, timezone, parameters, builtURL, result>>

\* The rest of GetAnalyticData, or of GetDailySummary, on the body.
Decode ==
    /\ pc = "fetched"
    /\ result' = IF op = "analytic"
                 THEN DecodeAnalyticData(contents, timezone, parameters[1])
                 ELSE DecodeDailySummary(contents)
    /\ pc' = "done"
    /\ UNCHANGED <<APIKey, op, timezone, parameters, builtURL, requests, contents>>

Next ==
    \/ /\ pc = "idle"
       /\ \E tz \in Timezones, p \in ParameterSets : CallGetAnalyticData(tz, p)
    \/ CallGetDailySummary
    \/ GetResponseNoKey
    \/ GetResponseFails
    \/ /\ pc = "built"
       /\ \E body \in (IF op = "analytic" THEN AnalyticBodies ELSE DailyBodies) :
             GetResponseBody(body)
    \/ Decode

Spec == Init /\ [][Next]_vars

\* Every value of AnalyticDataQueryParameters with each field empty or set.
AllParameterSets ==
    [{ParameterFields[i] : i \in 1..Len(ParameterFields)} -> {"", "set"}]

\* The calls up to their requests, over every set of parameters: the
\* building of the URL, and the getResponse that returns without a body.
NextURL ==
    \/ /\ pc = "idle"
       /\ \E tz \in Timezones, p \in AllParameterSets : CallGetAnalyticData(tz, p)
    \/ CallGetDailySummary
    \/ GetResponseNoKey
    \/ GetResponseFails

SpecURL == Init /\ [][NextURL]_vars

\* The characters of the headers of SpecKey: a letter of each case, a
\* digit, a space and the underscore.
HeaderAlphabet == {"a", "B", "1", " ", "_"}

\* Responses of one header and one row of one integer: every header over
\* HeaderAlphabet within the bound, and the headers of the other responses.
KeyBodies ==
    {OneRow(<<h>>, <<JNum(<<"3","6","0","0">>)>>) :
        h \in SeqsUpTo(HeaderAlphabet, MaxHeaderLen) \cup HeaderStrings}

\* The calls of GetAnalyticData on the responses of KeyBodies.
NextKey ==
    \/ /\ pc = "idle"
       /\ \E tz \in Timezones : CallGetAnalyticData(tz, NoParameters)
    \/ GetResponseNoKey
    \/ /\ pc = "built"
       /\ \E body \in KeyBodies : GetResponseBody(body)
    \/ Decode

SpecKey == Init /\ [][NextKey]_vars

\* ------------------------------------------------------------ properties

\* The call has returned (or panicked).
Done == pc = "done"

\* A call of GetAnalyticData has returned after getResponse gave it a body.
Decoded == Done /\ op = "analytic" /\ contents.top # "none"

\* The body is a JSON object that holds notes, row_headers and rows.
WellFormed == contents.top = "object" /\ contents.keys = TopKeys

\* The header strings and the rows the server sent.
SentHeaders ==
    IF contents.top = "object" /\ "row_headers" \in contents.keys
    THEN [i \in 1..Len(contents.row_headers.a) |-> contents.row_headers.a[i].s]
    ELSE <<>>

SentRows ==
    IF contents.top = "object" /\ "rows" \in contents.keys THEN contents.rows.a ELSE <<>>

\* C5: on a client whose API key is empty no HTTP request is ever issued, and
\* a call of GetAnalyticData or GetDailySummary returns the error of the
\* missing key.
C5_NoKeyNoRequest ==
    APIKey = "" =>
        /\ requests = <<>>
        /\ Done => result.kind = "err" /\ result.err = ErrNoKey /\ result.data = EmptyData

C5_Witness == APIKey = "" /\ Done /\ op = "analytic" /\ result.err = ErrNoKey

\* The row GetAnalyticData returns for a response that holds the entry alone.
RowAlone(entry) ==
    DecodeAnalyticData([contents EXCEPT !.rows = JArr(<<entry>>)],
                       timezone, parameters[1]).data.Rows[1]

\* C9: a successful GetAnalyticData returns one row per row of the response,
\* in the order of the response, each the row its entry decodes to; a
\* response with no rows gives no rows and no error.
C9_OneRowPerServerRow ==
    /\ (Decoded /\ result.kind = "ok") =>
          /\ Len(result.data.Rows) = Len(SentRows)
          /\ \A i \in 1..Len(SentRows) : result.data.Rows[i] = RowAlone(SentRows[i])
    /\ (Decoded /\ WellFormed /\ SentRows = <<>>) =>
          result.kind = "ok" /\ result.data.Rows = <<>>

C9_Witness ==
    /\ Decoded /\ result.kind = "ok"
    /\ Len(SentRows) = 2
    /\ result.data.Rows[1] # result.data.Rows[2]

\* The field each header of the model's responses is meant for, "" for a
\* header that is meant for none.
FieldOf(h) ==
    CASE h = hDate -> "Date"
      [] h \in {hTimeSpent, hTimeSpentDashed} -> "TimeSpentSeconds"
      [] h = hActivity -> "Activity"
      [] h = hCategory -> "Category"
      [] h = hProductivity -> "Productivity"
      [] OTHER -> ""

\* A number's literal is that of an integer.
IsIntegerLiteral(lit) ==
    /\ lit # <<>>
    /\ \A i \in 1..Len(lit) : IsDigit(lit[i]) \/ (i = 1 /\ lit[i] = "-" /\ Len(lit) > 1)

\* The cell is of the JSON type the field's column carries.
WellTyped(f, cell) ==
    CASE FieldKind[f] = "int" -> cell.t = "number" /\ IsIntegerLiteral(cell.s)
      [] FieldKind[f] = "time" -> cell.t = "string" /\ timeParse(cell.s).ok
      [] FieldKind[f] = "string" -> cell.t = "string"

\* The value a well-typed cell stands for.
CellValue(f, cell) == IF FieldKind[f] = "int" THEN Int64(cell.s).v ELSE cell.s

\* Every header is meant for a field (with Field(_) saying for which), no
\* two for the same one, and every row is a list of well-typed cells, one
\* per header at most.
Regular(Field(_)) ==
    /\ WellFormed
    /\ timezone = "" \/ timezone \in DOMAIN ZoneOffset
    /\ \A j \in 1..Len(SentHeaders) : Field(SentHeaders[j]) # ""
    /\ \A j, k \in 1..Len(SentHeaders) :
          Field(SentHeaders[j]) = Field(SentHeaders[k]) => j = k
    /\ \A i \in 1..Len(SentRows) :
          /\ SentRows[i].t = "array"
          /\ Len(SentRows[i].a) <= Len(SentHeaders)
          /\ \A j \in 1..Len(SentRows[i].a) :
                WellTyped(Field(SentHeaders[j]), SentRows[i].a[j])

\* The call succeeded and every field but Date of every row holds the value
\* of the cell under its header, and its zero value when it has no cell.
Stored(Field(_)) ==
    /\ result.kind = "ok"
    /\ Len(result.data.Rows) = Len(SentRows)
    /\ \A i \in 1..Len(SentRows) : \A f \in RowFieldSet \ {"Date"} :
          LET at == {j \in 1..Len(SentRows[i].a) : Field(SentHeaders[j]) = f}
          IN  result.data.Rows[i][f] =
                 IF at = {} THEN ZeroRow[f]
                 ELSE CellValue(f, SentRows[i].a[CHOOSE j \in at : TRUE])

\* C10: when the headers are headers of known fields, each of its own, in
\* any order, the cell at position i of a row is stored in the field of
\* header i, as an integer or as a string after the field, and the other
\* fields hold nothing; the specification's example decodes to time spent
\* 3600, activity "editor", category "software" and productivity 2.
C10_CellsStoredByHeader ==
    /\ (Decoded /\ Regular(FieldOf)) => Stored(FieldOf)
    /\ (Decoded /\ contents = ExampleBody) =>
          result.data.Rows =
             <<[ZeroRow EXCEPT !["TimeSpentSeconds"] = 3600, !["Activity"] = sEditor,
                               !["Category"] = sSoftware, !["Productivity"] = 2]>>

C10_Witness ==
    /\ Decoded /\ Regular(FieldOf)
    /\ SentHeaders = <<hActivity, hTimeSpent>>
    /\ Len(SentRows) = 2
    /\ result.data.Rows[2]["TimeSpentSeconds"] = 3600
    /\ result.data.Rows[2]["Activity"] = sEditor

\* A header with its letters in lower case and its other characters but
\* digits dropped: what two headers that differ only in case and punctuation
\* have in common.
Fold(h) ==
    LET alnum == SelectSeq(h, IsAlnum)
    IN  [i \in 1..Len(alnum) |->
            IF IsUpper(alnum[i]) THEN Lower[IndexIn(alnum[i], Upper)] ELSE alnum[i]]

\* The field whose name a header spells when case and punctuation are
\* ignored, "" when it spells none.
FoldField(h) ==
    IF \E f \in RowFieldSet : Fold(FieldSpelling[f]) = Fold(h)
    THEN CHOOSE f \in RowFieldSet : Fold(FieldSpelling[f]) = Fold(h)
    ELSE ""

\* The elements of seq at the places in idx, in their order.
SubSeqAt(seq, idx) ==
    [k \in 1..Cardinality(idx) |->
        seq[CHOOSE j \in idx : Cardinality({m \in idx : m < j}) = k - 1]]

\* The response with only the columns at the places in keep.
Columns(keep) ==
    [contents EXCEPT
        !.row_headers = Headers(SubSeqAt(SentHeaders, keep \cap (1..Len(SentHeaders)))),
        !.rows = JArr([i \in 1..Len(SentRows) |->
                          IF SentRows[i].t # "array" THEN SentRows[i]
                          ELSE JArr(SubSeqAt(SentRows[i].a,
                                             keep \cap (1..Len(SentRows[i].a))))])]

\* Places enough for every header and every cell of the response.
Places == 1..(MaxCols + Len(SentHeaders) + 2)

\* What GetAnalyticData returns for the response with only those columns.
ResultOf(keep) == DecodeAnalyticData(Columns(keep), timezone, parameters[1])

\* The columns whose header spells no field of row.
UnknownColumns == {j \in 1..Len(SentHeaders) : FoldField(SentHeaders[j]) = ""}

\* C1: a response with a header of no known field, whose other columns
\* decode, is decoded without error or crash to the rows its other columns
\* decode to.
C1_UnknownHeaderIgnored ==
    (/\ Decoded /\ WellFormed
     /\ UnknownColumns # {}
     /\ ResultOf(Places \ UnknownColumns).kind = "ok")
    => /\ result.kind = "ok"
       /\ result.data.Rows = ResultOf(Places \ UnknownColumns).data.Rows

\* C2: a decoded row tells a field whose column the response lacks from a
\* field whose column holds a value, zero and the empty string included:
\* the response without one of its columns decodes to other rows.
C2_AbsentIsNotZero ==
    (Decoded /\ Regular(FieldOf) /\ result.kind = "ok")
    => \A j \in 1..Len(SentHeaders) :
          (SentRows # <<>> /\ \A i \in 1..Len(SentRows) : Len(SentRows[i].a) >= j)
          => ResultOf(Places \ {j}).data.Rows # result.data.Rows

\* C3: with a recognized timezone every decoded Date shows the year, month,
\* day, hour, minute and second written in the date string, with the
\* offset of that zone.
C3_WallClockKept ==
    (Decoded /\ Regular(FieldOf) /\ result.kind = "ok"
     /\ timezone # "" /\ timezone \in DOMAIN ZoneOffset)
    => \A i \in 1..Len(SentRows) : \A j \in 1..Len(SentRows[i].a) :
          FieldOf(SentHeaders[j]) = "Date"
          => LET d == result.data.Rows[i]["Date"]
                 str == SentRows[i].a[j].s
             IN  /\ d.year = Atoi(str, 1, 4) /\ d.month = Atoi(str, 6, 7)
                 /\ d.day = Atoi(str, 9, 10) /\ d.hour = Atoi(str, 12, 13)
                 /\ d.min = Atoi(str, 15, 16) /\ d.sec = Atoi(str, 18, 19)
                 /\ d.off = ZoneOffset[timezone]

\* The cell is not of the JSON type of the field's column: no integer in a
\* numeric column, no string in the date or a text column.
IllTyped(f, cell) ==
    IF FieldKind[f] = "int" THEN ~(cell.t = "number" /\ IsIntegerLiteral(cell.s))
    ELSE cell.t # "string"

\* C4: when every header is the header of a known field and a cell cannot
\* be coerced to the type of its column, or a row is no list,
\* GetAnalyticData returns an error: it neither crashes nor succeeds.
C4_BadCellIsError ==
    (/\ Decoded /\ WellFormed
     /\ \A j \in 1..Len(SentHeaders) : FieldOf(SentHeaders[j]) # ""
     /\ \A i \in 1..Len(SentRows) : Len(SentRows[i].a) <= Len(SentHeaders)
     /\ \E i \in 1..Len(SentRows) :
           \/ SentRows[i].t # "array"
           \/ \E j \in 1..Len(SentRows[i].a) :
                 IllTyped(FieldOf(SentHeaders[j]), SentRows[i].a[j]))
    => result.kind = "err"

\* C6: for a body that is no JSON, or a JSON value that lacks notes,
\* row_headers or rows, GetAnalyticData returns an error.
C6_MalformedIsError == (Decoded /\ ~WellFormed) => result.kind = "err"

\* C7: the matching of headers to fields ignores case and punctuation: when
\* every header spells a field's name but for case and punctuation, each
\* cell is stored in the field its header spells.
C7_CaseInsensitive == (Decoded /\ Regular(FoldField)) => Stored(FoldField)

\* C8: when two different headers of a response have the same key, the
\* decoding does not succeed with the value of one column written over the
\* value of the other.
C8_NoSilentOverwrite ==
    (/\ Decoded /\ WellFormed
     /\ \E j, k \in 1..Len(SentHeaders) :
           /\ j < k /\ SentHeaders[j] # SentHeaders[k]
           /\ FieldOf(SentHeaders[j]) # ""
           /\ FieldOf(SentHeaders[j]) = FieldOf(SentHeaders[k])
           /\ \E i \in 1..Len(SentRows) :
                 /\ SentRows[i].t = "array" /\ Len(SentRows[i].a) >= k
                 /\ SentRows[i].a[j] # SentRows[i].a[k])
    => result.kind # "ok"

\* The name each parameter goes by on the wire.
WireName ==
    [f \in {"Perspective", "ResolutionTime", "RestrictGroup", "RestrictBegin",
            "RestrictEnd", "RestrictKind", "RestrictThing", "RestrictThingy"} |->
        CASE f = "Perspective" -> "perspective"
          [] f = "ResolutionTime" -> "resolution_time"
          [] f = "RestrictGroup" -> "restrict_group"
          [] f = "RestrictBegin" -> "restrict_begin"
          [] f = "RestrictEnd" -> "restrict_end"
          [] f = "RestrictKind" -> "restrict_kind"
          [] f = "RestrictThing" -> "restrict_thing"
          [] f = "RestrictThingy" -> "restrict_thingy"]

\* The query of a request of the client with the parameters p: the key, the
\* format and the parameters that are not empty.
QueryOf(p) ==
    {<<"key", APIKey>>, <<"format", "json">>}
        \cup {<<WireName[f], p[f]>> : f \in {g \in DOMAIN WireName : p[g] # ""}}

\* Values a caller could hand to buildURL under the keys it sets itself.
Supplied == {{<<"key", "other">>}, {<<"format", "xml">>},
             {<<"key", "other">>, <<"format", "xml">>}}

\* C11: the query of the built URL holds exactly key=<the client's key>,
\* format=json and one pair <wire name>=<value> for each parameter that is
\* not empty (none at all for GetDailySummary); an empty parameter is left
\* out, and buildURL writes its key and format over supplied ones.
C11_QueryIsKeyFormatAndSetParameters ==
    pc # "idle" =>
        /\ builtURL.ok
        /\ op = "analytic" =>
              /\ builtURL.base = analyticDataURL
              /\ builtURL.query = QueryOf(parameters[1])
              /\ \A kv \in builtURL.query : kv[2] = "" => kv[1] = "key"
              /\ \A extra \in Supplied :
                    buildURL(APIKey, analyticDataURL,
                             structToMap(parameters[1]) \cup extra).query
                        = QueryOf(parameters[1])
        /\ op = "daily" =>
              /\ builtURL.base = dailySummaryURL
              /\ builtURL.query = {<<"key", APIKey>>, <<"format", "json">>}

C11_Witness ==
    /\ pc = "built" /\ op = "analytic" /\ APIKey = "secret"
    /\ parameters[1]["Perspective"] = "set" /\ parameters[1]["RestrictThingy"] = "set"
    /\ parameters[1]["ResolutionTime"] = ""
    /\ Cardinality(builtURL.query) = 4

\* The time.Time that shows the year, month, day, hour, minute and second
\* written in a date string of the form YYYY-MM-DDTHH:MM:SS, with no offset.
Literal(str) ==
    Time(Atoi(str, 1, 4), Atoi(str, 6, 7), Atoi(str, 9, 10),
         Atoi(str, 12, 13), Atoi(str, 15, 16), Atoi(str, 18, 19), "UTC", 0)

Canonical ==
    [contents EXCEPT
        !.row_headers = Headers([j \in 1..Len(SentHeaders) |-> HeaderKey(SentHeaders[j])])]

\* C13: the key of a header is a function of the header alone, and the key
\* of a key is that key: a response whose headers are replaced by their
\* keys has the same keys and decodes to the same rows or the same failure.
C13_HeaderKeyIdempotent ==
    (Decoded /\ WellFormed) =>
        /\ \A j \in 1..Len(SentHeaders) :
              HeaderKey(HeaderKey(SentHeaders[j])) = HeaderKey(SentHeaders[j])
        /\ \A j, k \in 1..Len(SentHeaders) :
              SentHeaders[j] = SentHeaders[k]
              => HeadersMap(SentHeaders)[j] = HeadersMap(SentHeaders)[k]
        /\ LET again == DecodeAnalyticData(Canonical, timezone, parameters[1])
           IN  again.kind = result.kind /\ again.data.Rows = result.data.Rows

C13_Witness ==
    /\ Decoded /\ SentHeaders = <<hTimeSpent>>
    /\ HeaderKey(hTimeSpent) # hTimeSpent
    /\ HeaderKey(hTimeSpent) = FieldSpelling["TimeSpentSeconds"]
    /\ result.kind = "ok" /\ result.data.Rows[1]["TimeSpentSeconds"] = 3600

\* The order of the stages: from the call to the built URL, from there to
\* the fetched body, from there to the return; every stage may return.
StageOrder ==
    {<<"idle", "built">>, <<"idle", "done">>, <<"built", "fetched">>,
     <<"built", "done">>, <<"fetched", "done">>}

\* What holds of a call at every moment: one request at most, none when the
\* URL was not built, and after a transport failure that error and no body.
OneRequestAtMost ==
    /\ Len(requests) <= 1
    /\ pc \in {"idle", "built"} => requests = <<>> /\ result = NoResult
    /\ (pc # "idle" /\ ~builtURL.ok) => Done /\ requests = <<>> /\ result.kind = "err"
    /\ pc = "fetched" => Len(requests) = 1 /\ contents # NoContents /\ result = NoResult
    /\ (Done /\ result.err = ErrTransport) =>
          /\ result.kind = "err" /\ result.data = EmptyData /\ result.summaries = <<>>
          /\ Len(requests) = 1 /\ contents = NoContents

\* What holds of every step of a call: the stages in their order, the
\* request issued from the built URL and with it alone a body received, the
\* result set at the return and the return final.
StagesInOrder ==
    /\ <<pc, pc'>> \in StageOrder
    /\ requests' # requests =>
          pc = "built" /\ builtURL.ok /\ requests = <<>> /\ requests' = <<builtURL>>
    /\ contents' # contents => requests' # requests /\ pc' = "fetched"
    /\ result' # result => pc' = "done"
    /\ builtURL' # builtURL => pc = "idle"

\* C14: a call of GetAnalyticData or GetDailySummary builds the URL, then
\* fetches, then decodes, and issues one HTTP GET at most: when the URL is
\* not built no request is sent, a transport failure is returned as it is,
\* with no decoding and no second request, and nothing is tried again.
C14_BuildFetchDecodeOnce == []OneRequestAtMost /\ [][StagesInOrder]_vars

C14_Witness ==
    /\ Done /\ op = "daily" /\ result.err = ErrTransport
    /\ requests = <<builtURL>> /\ contents = NoContents

\* C15: whenever GetAnalyticData returns an error, at whatever stage or row,
\* the AnalyticData it returns with it is the empty value: it shows no
\* notes, headers, parameters or rows of the response that failed.
C15_ErrorWithEmptyData ==
    (Done /\ op = "analytic" /\ result.kind = "err") => result.data = EmptyData

\* The timezone argument names no zone.
Unrecognized == timezone # "" /\ timezone \notin DOMAIN ZoneOffset

\* Cell j of row i is a string under the Date header.
DateCell(i, j) ==
    /\ SentRows[i].t = "array" /\ j \in 1..Len(SentRows[i].a)
    /\ j <= Len(SentHeaders) /\ FieldOf(SentHeaders[j]) = "Date"
    /\ SentRows[i].a[j].t = "string"

\* Cell j of row i is a well-typed cell of a known column that is no date.
CellFine(i, j) ==
    /\ j <= Len(SentHeaders) /\ FieldOf(SentHeaders[j]) \notin {"", "Date"}
    /\ WellTyped(FieldOf(SentHeaders[j]), SentRows[i].a[j])

\* Every cell of row i is.
RowFine(i) ==
    SentRows[i].t = "array" /\ \A j \in 1..Len(SentRows[i].a) : CellFine(i, j)

\* Nothing fails before cell j of row i: the rows before and the cells
\* before in the row hold no date and decode.
FineBefore(i, j) ==
    /\ \A k \in 1..(i - 1) : RowFine(k)
    /\ \A k \in 1..(j - 1) : CellFine(i, k)

\* C16: the timezone is looked up only when a date cell is decoded, after
\* its string is parsed. With a timezone that names no zone the call fails
\* with the error of the lookup exactly when a well-formatted date cell
\* comes before any other failure; without a date cell (no Date column, or
\* no rows) it succeeds, and when the first date string is malformed the
\* error of the parsing is returned, not that of the lookup.
C16_TimezoneLookedUpAtDateCell ==
    (Decoded /\ WellFormed /\ Unrecognized) =>
        /\ (result.kind = "err" /\ result.err = ErrLocation)
             <=> \E i \in 1..Len(SentRows) : \E j \in 1..Len(SentRows[i].a) :
                    /\ DateCell(i, j) /\ timeParse(SentRows[i].a[j].s).ok
                    /\ FineBefore(i, j)
        /\ (\A i \in 1..Len(SentRows) : RowFine(i)) => result.kind = "ok"
        /\ (\E i \in 1..Len(SentRows) : \E j \in 1..Len(SentRows[i].a) :
               /\ DateCell(i, j) /\ ~timeParse(SentRows[i].a[j].s).ok
               /\ FineBefore(i, j))
             => result.kind = "err" /\ result.err = ErrParseTime

C16_Witness ==
    /\ Decoded /\ Unrecognized
    /\ SentHeaders = <<hActivity, hDate>>
    /\ SentRows = <<JArr(<<JStr(sEditor), JStr(sLeapDate)>>)>>
    /\ result.kind = "err" /\ result.err = ErrLocation /\ result.data = EmptyData

====
